---- MODULE Spec2Model ----
(***************************************************************************)
(* A model of the HolE knowledge-graph embedding model                     *)
(* (src/src/poem/models/unimodal/hole.py) and of the self-adversarial      *)
(* negative-sampling loss as exercised by                                  *)
(* src/tests/test_loss_functions.py.                                       *)
(*                                                                         *)
(* Tensors are functions: a vector of length d is a function on 0..d-1, an *)
(* embedding table with n rows a function on 0..n-1 of vectors, a batch a  *)
(* sequence of index tuples.  A transformed vector, as torch.rfft returns  *)
(* it with onesided=False, has one more axis of size 2 (0: real part,      *)
(* 1: imaginary part).  Embedding values are integers; torch.irfft divides *)
(* by the signal length d, so every tensor produced after it is kept as    *)
(* its numerator over the denominator embedding_dim.                       *)
(***************************************************************************)
EXTENDS Integers, Sequences, FiniteSets, TLC

(* ------------------------------- bounds -------------------------------- *)

\* rows of an index batch
MaxBatch == 2
\* cells (rows * embedding_dim) of a table built by the constructor
MaxCells == 2
\* largest magnitude the random source is sampled at
MaxSample == 4

\* Signal lengths whose roots of unity are Gaussian integers, so that the
\* discrete Fourier transform is exact over the integers.
Dims == {1, 2, 4}
\* entity and relation indices of the tables the forward passes run on
Entities == 0..1
Relations == 0..0
\* values of the embedding rows the forward passes run on
Vals == {-1, 0, 1}
\* embedding dimensions of the tables built by the constructor
ConstructDims == {1, 2}
\* the value a table supplied to the constructor is filled with
SuppliedVals == {0, 5}

\* Optional[...]: None, or the value wrapped.
None == << >>
Some(v) == << v >>

VARIABLES
    pc,                   \* "new" before HolE.__init__ has run, "ready" after
    embedding_dim,        \* self.embedding_dim
    num_entities,         \* self.num_entities
    num_relations,        \* self.num_relations
    entity_arg,           \* the entity_embeddings argument of __init__
    relation_arg,         \* the relation_embeddings argument of __init__
    entity_embeddings,    \* self.entity_embeddings (Optional table)
    relation_embeddings,  \* self.relation_embeddings (Optional table)
    irfft_impl,           \* what the build's irfft does with a spectrum that is
                          \* not conjugate symmetric (documented as undefined)
    call,                 \* the forward function that returned last, or "none"
    batch,                \* its index batch
    scores                \* the score tensor it returned

holeVars == << pc, embedding_dim, num_entities, num_relations, entity_arg,
               relation_arg, entity_embeddings, relation_embeddings,
               irfft_impl, call, batch, scores >>

VARIABLES
    stage,             \* "new", "criterion" (a loss object was constructed
                       \* directly), "training", "evaluated", "done" (pipeline)
    criterion_kwargs,  \* the keyword arguments the criterion class is given
    criterion,         \* the loss object constructed directly (Optional)
    model_criterion,   \* pipeline_results.model.criterion (Optional)
    pos_scores,        \* the positive scores of the last loss computation
    neg_scores,        \* its negative scores
    loss,              \* the loss it returned (Optional)
    epochs             \* training epochs the pipeline has run

lossVars == << stage, criterion_kwargs, criterion, model_criterion,
               pos_scores, neg_scores, loss, epochs >>

vars == << holeVars, lossVars >>

(* ------------------------------ tensors -------------------------------- *)

\* A tensor with every element computed (TLC evaluates a function
\* constructor lazily, element by element, at every use).
Dense(f) == f @@ << >>

RECURSIVE SumTo(_, _)
SumTo(f, n) == IF n < 0 THEN 0 ELSE f[n] + SumTo(f, n - 1)

\* torch.sum over the last axis of a vector of length d
Sum(f, d) == SumTo(f, d - 1)

\* cos and sin of q quarter turns
CosQ(q) == CASE q % 4 = 0 -> 1 [] q % 4 = 1 -> 0 [] q % 4 = 2 -> -1 [] OTHER -> 0
SinQ(q) == CASE q % 4 = 0 -> 0 [] q % 4 = 1 -> 1 [] q % 4 = 2 -> 0 [] OTHER -> -1

\* the angle 2*pi*m/d in quarter turns, for d dividing 4
Quarter(d, m) == (m * (4 \div d)) % 4

\* torch.rfft(x, signal_ndim=1, onesided=False) of one row x of length d:
\* X[k] = sum_j x[j] * exp(-2*pi*i*j*k/d), as (real, imaginary).
rfft1(x, d) ==
    Dense([k \in 0..(d - 1) |->
        Dense([c \in 0..1 |->
            IF c = 0
            THEN Sum([j \in 0..(d - 1) |-> x[j] * CosQ(Quarter(d, j * k))], d)
            ELSE 0 - Sum([j \in 0..(d - 1) |-> x[j] * SinQ(Quarter(d, j * k))], d)])])

\* torch.rfft over every row of a batched tensor (a sequence or a table)
rfft(x, d) == Dense([i \in DOMAIN x |-> rfft1(x[i], d)])

\* The spectrum torch.irfft works on.  With onesided=False the backends keep
\* the first d \div 2 + 1 bins and take the rest from conjugate symmetry
\* ("c2r"); the documentation leaves the result undefined when the input is
\* not conjugate symmetric, so the plain inverse transform of all d bins,
\* real part kept ("full"), is modelled as the other outcome.
Spectrum(p, d, impl) ==
    IF impl = "c2r"
    THEN Dense([k \in 0..(d - 1) |->
            IF 2 * k <= d THEN p[k]
            ELSE Dense([c \in 0..1 |->
                    IF c = 0 THEN p[d - k][0] ELSE 0 - p[d - k][1]])])
    ELSE p

\* torch.irfft(p, signal_ndim=1, onesided=False, signal_sizes=(d,)) of one
\* row, times d: x[n] * d = Re sum_k X[k] * exp(2*pi*i*k*n/d).
irfft1(p, d, impl) ==
    LET X == Spectrum(p, d, impl)
    IN  Dense([n \in 0..(d - 1) |->
            Sum([k \in 0..(d - 1) |->
                    X[k][0] * CosQ(Quarter(d, k * n))
                    - X[k][1] * SinQ(Quarter(d, k * n))], d)])

\* nn.Embedding.__call__: gather the rows of table w named by the indices
EmbeddingLookup(w, idx) == Dense([i \in DOMAIN idx |-> w[idx[i]]])

\* batch[:, c] (c counted from 0 as in the source)
Column(b, c) == [i \in DOMAIN b |-> b[i][c + 1]]

\* x[:, :, 1] *= -1 of a transformed tensor x
NegateImag(x) ==
    Dense([i \in DOMAIN x |->
        Dense([k \in DOMAIN x[i] |->
            Dense([c \in 0..1 |-> IF c = 1 THEN 0 - x[i][k][c] ELSE x[i][k][c]])])])

\* The in-place sign flip reaching the entity table's weight as well (its
\* component 1 of every row), as it would if the flipped tensor shared the
\* weight's storage.
ConjInPlaceOnWeight(frame, name) ==
    [frame EXCEPT
        ![name] = NegateImag(frame[name]),
        !.entity_weight = Dense([e \in DOMAIN frame.entity_weight |->
                    Dense([k \in DOMAIN frame.entity_weight[e] |->
                        IF k = 1 THEN 0 - frame.entity_weight[e][k]
                        ELSE frame.entity_weight[e][k]])])]

\* x_fft[:, :, 1] *= -1 on the tensor named `name` of the local frame: the
\* in-place complex conjugate.  The frame lists every tensor the forward
\* function holds a reference to, the tables' weights included; the
\* transform is a tensor of its own, so only it changes.
ConjInPlace(frame, name) == [frame EXCEPT ![name] = NegateImag(frame[name])]

\* a * b of two transformed rows: the elementwise product of two real
\* tensors of shape (d, 2)
Hadamard(a, b) ==
    Dense([k \in DOMAIN a |-> Dense([c \in 0..1 |-> a[k][c] * b[k][c]])])

\* torch.sum(r * composite, dim=-1) of one row
Inner(r, composite, d) == Sum([k \in 0..(d - 1) |-> r[k] * composite[k]], d)

(* ------------------------------- HolE ---------------------------------- *)

\* HolE.forward_owa with the inner product summed over every axis (dim=-1
\* left out): one number whatever the batch.
forward_owa_sum_all(W, R, b, d, impl) ==
    LET h == EmbeddingLookup(W, Column(b, 0))
        r == EmbeddingLookup(R, Column(b, 1))
        t == EmbeddingLookup(W, Column(b, 2))
        composite == [i \in DOMAIN b |->
                        irfft1(Hadamard(NegateImag(rfft(h, d))[i], rfft(t, d)[i]),
                               d, impl)]
        RECURSIVE Total(_)
        Total(i) == IF i = 0 THEN 0
                    ELSE Inner(r[i], composite[i], d) + Total(i - 1)
    IN  [scores |-> << << Total(Len(b)) >> >>,
         entity_weight |-> W,
         relation_weight |-> R]

\* HolE.forward_owa: one score per (head, relation, tail) row of the batch.
\* Returns the scores (shape (batch, 1), numerators over d) and the tables'
\* weights as the call leaves them.
forward_owa(W, R, b, d, impl) ==
    LET h == EmbeddingLookup(W, Column(b, 0))
        r == EmbeddingLookup(R, Column(b, 1))
        t == EmbeddingLookup(W, Column(b, 2))
        f0 == [entity_weight |-> W, relation_weight |-> R,
               a_fft |-> rfft(h, d), b_fft |-> rfft(t, d)]
        f1 == ConjInPlace(f0, "a_fft")
        p_fft == [i \in DOMAIN b |-> Hadamard(f1.a_fft[i], f1.b_fft[i])]
        composite == [i \in DOMAIN b |-> irfft1(p_fft[i], d, impl)]
    IN  [scores |-> [i \in DOMAIN b |-> << Inner(r[i], composite[i], d) >>],
         entity_weight |-> f1.entity_weight,
         relation_weight |-> f1.relation_weight]

\* HolE.forward_cwa without the complex conjugate of the head's transform
forward_cwa_no_conj(W, R, b, d, impl) ==
    LET h == EmbeddingLookup(W, Column(b, 0))
        r == EmbeddingLookup(R, Column(b, 1))
        h_fft == rfft(h, d)
        t_fft == rfft(W, d)
        composite == [i \in DOMAIN b |-> [e \in DOMAIN W |->
                        irfft1(Hadamard(h_fft[i], t_fft[e]), d, impl)]]
    IN  [scores |-> [i \in DOMAIN b |-> [e \in DOMAIN W |->
                        Inner(r[i], composite[i][e], d)]],
         entity_weight |-> W,
         relation_weight |-> R]

\* HolE.forward_cwa: for every (head, relation) row of the batch, the score
\* of every entity as tail (shape (batch, num_entities)).
forward_cwa(W, R, b, d, impl) ==
    LET h == EmbeddingLookup(W, Column(b, 0))
        r == EmbeddingLookup(R, Column(b, 1))
        f0 == [entity_weight |-> W, relation_weight |-> R,
               h_fft |-> rfft(h, d), t_fft |-> rfft(W, d)]
        f1 == ConjInPlace(f0, "h_fft")
        \* h_fft[:, None, :, :] * t_fft[None, :, :, :]
        p_fft == [i \in DOMAIN b |-> [e \in DOMAIN W |->
                        Hadamard(f1.h_fft[i], f1.t_fft[e])]]
        composite == [i \in DOMAIN b |-> [e \in DOMAIN W |->
                        irfft1(p_fft[i][e], d, impl)]]
    IN  [scores |-> [i \in DOMAIN b |-> [e \in DOMAIN W |->
                        Inner(r[i], composite[i][e], d)]],
         entity_weight |-> f1.entity_weight,
         relation_weight |-> f1.relation_weight]

\* HolE.forward_inverse_cwa: for every (relation, tail) row of the batch,
\* the score of every entity as head (shape (batch, num_entities)).  h is
\* the entity table's weight itself, not a copy.
forward_inverse_cwa(W, R, b, d, impl) ==
    LET r == EmbeddingLookup(R, Column(b, 0))
        t == EmbeddingLookup(W, Column(b, 1))
        f0 == [entity_weight |-> W, relation_weight |-> R,
               h_fft |-> rfft(W, d), t_fft |-> rfft(t, d)]
        f1 == ConjInPlace(f0, "h_fft")
        \* h_fft[None, :, :, :] * t_fft[:, None, :, :]
        p_fft == [i \in DOMAIN b |-> [e \in DOMAIN W |->
                        Hadamard(f1.h_fft[e], f1.t_fft[i])]]
        composite == [i \in DOMAIN b |-> [e \in DOMAIN W |->
                        irfft1(p_fft[i][e], d, impl)]]
    IN  [scores |-> [i \in DOMAIN b |-> [e \in DOMAIN W |->
                        Inner(r[i], composite[i][e], d)]],
         entity_weight |-> f1.entity_weight,
         relation_weight |-> f1.relation_weight]

(* ------------------------ the forward passes --------------------------- *)

\* the zero row and the signed unit rows of length d
Rows(d) == {[j \in 0..(d - 1) |-> IF j = p THEN v ELSE 0] :
                p \in 0..(d - 1), v \in Vals}

Tables(n, d) == [0..(n - 1) -> Rows(d)]

SeqsUpTo(S, n) == UNION {[1..m -> S] : m \in 0..n}

EntityIds == 0..(num_entities - 1)
RelationIds == 0..(num_relations - 1)

\* index batches of the three forward functions
TripleBatches == SeqsUpTo(EntityIds \X RelationIds \X EntityIds, MaxBatch)
HeadRelationBatches == SeqsUpTo(EntityIds \X RelationIds, MaxBatch)
RelationTailBatches == SeqsUpTo(RelationIds \X EntityIds, MaxBatch)

\* self.entity_embeddings.weight and self.relation_embeddings.weight
EntityWeight == entity_embeddings[1]
RelationWeight == relation_embeddings[1]

\* no loss object exists
NoLoss ==
    /\ stage = "new"
    /\ criterion_kwargs = [margin |-> 1, adversarial_temperature |-> 1]
    /\ criterion = None
    /\ model_criterion = None
    /\ pos_scores = << >>
    /\ neg_scores = << >>
    /\ loss = None
    /\ epochs = 0

\* A constructed model: the caller supplied both tables (hole.py 62-65).
Init ==
    /\ NoLoss
    /\ pc = "ready"
    /\ embedding_dim \in Dims
    /\ num_entities = Cardinality(Entities)
    /\ num_relations = Cardinality(Relations)
    /\ entity_arg \in {Some(t) : t \in Tables(num_entities, embedding_dim)}
    /\ relation_arg \in {Some(t) : t \in Tables(num_relations, embedding_dim)}
    /\ entity_embeddings = entity_arg
    /\ relation_embeddings = relation_arg
    /\ irfft_impl \in {"c2r", "full"}
    /\ call = "none"
    /\ batch = << >>
    /\ scores = << >>

Returned(name, b, out) ==
    /\ call' = name
    /\ batch' = b
    /\ scores' = out.scores
    /\ entity_embeddings' = Some(out.entity_weight)
    /\ relation_embeddings' = Some(out.relation_weight)
    /\ UNCHANGED << pc, embedding_dim, num_entities, num_relations,
                    entity_arg, relation_arg, irfft_impl >>

ForwardOWA ==
    /\ pc = "ready"
    /\ call = "none"
    /\ \E b \in TripleBatches :
        Returned("forward_owa", b,
                 forward_owa(EntityWeight, RelationWeight, b,
                             embedding_dim, irfft_impl))

ForwardCWA ==
    /\ pc = "ready"
    /\ call = "none"
    /\ \E b \in HeadRelationBatches :
        Returned("forward_cwa", b,
                 forward_cwa(EntityWeight, RelationWeight, b,
                             embedding_dim, irfft_impl))

ForwardInverseCWA ==
    /\ pc = "ready"
    /\ call = "none"
    /\ \E b \in RelationTailBatches :
        Returned("forward_inverse_cwa", b,
                 forward_inverse_cwa(EntityWeight, RelationWeight, b,
                                     embedding_dim, irfft_impl))

\* The caller is done with the score tensor it was handed; the next forward
\* pass starts.  Forward passes are synchronous and run one at a time.
Discard ==
    /\ call # "none"
    /\ call' = "none"
    /\ batch' = << >>
    /\ scores' = << >>
    /\ UNCHANGED << pc, embedding_dim, num_entities, num_relations, entity_arg,
                    relation_arg, entity_embeddings, relation_embeddings,
                    irfft_impl >>

Next ==
    \/ ForwardOWA /\ UNCHANGED lossVars
    \/ ForwardCWA /\ UNCHANGED lossVars
    \/ ForwardInverseCWA /\ UNCHANGED lossVars
    \/ Discard /\ UNCHANGED lossVars

Spec == Init /\ [][Next]_vars

(* ------------------- claims about the forward passes ------------------- *)

\* Circular correlation by its direct definition:
\* c[k] = sum_i a[i] * b[(i + k) mod d].
CircularCorrelation(a, b, d) ==
    [k \in 0..(d - 1) |->
        Sum([i \in 0..(d - 1) |-> a[i] * b[(i + k) % d]], d)]

\* sum_k r[k] * c[k] for the rows of head h, relation r and tail t
DirectScore(h, r, t) ==
    Inner(RelationWeight[r],
          CircularCorrelation(EntityWeight[h], EntityWeight[t], embedding_dim),
          embedding_dim)

\* the forward_owa score of the one triple (h, r, t)
OwaScore(h, r, t) ==
    forward_owa(EntityWeight, RelationWeight, << << h, r, t >> >>,
                embedding_dim, irfft_impl).scores[1][1]

\* C1: every score forward_owa returns is the inner product of the relation
\* row with the circular correlation of the head and tail rows, computed by
\* the direct definition (scores are numerators over embedding_dim).
C1_OwaScoreIsCircularCorrelation ==
    call = "forward_owa" =>
        \A i \in DOMAIN batch :
            scores[i][1] = embedding_dim
                            * DirectScore(batch[i][1], batch[i][2], batch[i][3])

\* C2: entry [i, e] of the matrix forward_cwa returns is the forward_owa
\* score of (h_i, r_i, e), entry [i, e] of the matrix forward_inverse_cwa
\* returns is the forward_owa score of (e, r_i, t_i), and both matrices have
\* one row per batch row and one column per entity.
C2_ModeConsistency ==
    /\ call = "forward_cwa" =>
        /\ DOMAIN scores = DOMAIN batch
        /\ \A i \in DOMAIN batch :
            /\ DOMAIN scores[i] = EntityIds
            /\ \A e \in EntityIds :
                scores[i][e] = OwaScore(batch[i][1], batch[i][2], e)
    /\ call = "forward_inverse_cwa" =>
        /\ DOMAIN scores = DOMAIN batch
        /\ \A i \in DOMAIN batch :
            /\ DOMAIN scores[i] = EntityIds
            /\ \A e \in EntityIds :
                scores[i][e] = OwaScore(e, batch[i][1], batch[i][2])

\* forward_cwa has scored two different heads over tables of dimension 4
\* and told two tails apart
C2_Witness ==
    /\ call = "forward_cwa"
    /\ embedding_dim = 4
    /\ Len(batch) = 2
    /\ batch[1][1] # batch[2][1]
    /\ \E e1, e2 \in EntityIds : scores[1][e1] # scores[1][e2]
    /\ scores[1] # scores[2]

\* C3: swapping head and tail changes the score: whenever forward_owa has
\* scored a triple and its swap in one batch and the circular correlation
\* tells the two apart, the two returned scores differ.
C3_SwapChangesScore ==
    call = "forward_owa" =>
        \A i, j \in DOMAIN batch :
            ( /\ batch[j] = << batch[i][3], batch[i][2], batch[i][1] >>
              /\ DirectScore(batch[i][1], batch[i][2], batch[i][3])
                    # DirectScore(batch[j][1], batch[j][2], batch[j][3]) )
            => scores[i] # scores[j]

C10_ForwardKeepsTables ==
    [][ call' # "none" =>
            /\ entity_embeddings' = entity_embeddings
            /\ relation_embeddings' = relation_embeddings ]_holeVars

\* forward_inverse_cwa, which transforms the entity table's weight itself,
\* has run on a table a sign flip of component 1 would change
C10_Witness ==
    /\ call = "forward_inverse_cwa"
    /\ Len(batch) > 0
    /\ embedding_dim > 1
    /\ \E e \in EntityIds : EntityWeight[e][1] # 0
    /\ entity_embeddings = entity_arg

(* --------------------------- construction ------------------------------ *)

\* entity_embedding_max_norm = 1
entity_embedding_max_norm == 1

\* values the random source is sampled at
Samples == (0 - MaxSample)..MaxSample

\* 6 / np.sqrt(num_embeddings + embedding_dim), kept as the numerator and
\* the number under the root
InitBound(num_embeddings, dim) ==
    [numerator |-> 6, radicand |-> num_embeddings + dim]

\* the relation bound computed from the entity table's row count
relation_bound_from_entity_rows == InitBound(num_entities, embedding_dim)

entity_embeddings_init_bound == InitBound(num_entities, embedding_dim)
relation_embeddings_init_bound == InitBound(num_relations, embedding_dim)

\* -bound <= v <= +bound, for bound = numerator / sqrt(radicand)
WithinBound(v, bound) ==
    v * v * bound.radicand <= bound.numerator * bound.numerator

\* nn.init.uniform_(weight, a=-bound, b=+bound) on an n x d weight: the
\* tables the random source can fill it with
uniform_(n, d, bound) ==
    [0..(n - 1) -> [0..(d - 1) -> {v \in Samples : WithinBound(v, bound)}]]

\* tables a caller hands to the constructor
SuppliedTables(n, d) ==
    {[e \in 0..(n - 1) |-> [k \in 0..(d - 1) |-> c]] : c \in SuppliedVals}

\* row counts of a table of dimension d
RowCounts(d) == 1..(MaxCells \div d)

ConstructInit ==
    /\ NoLoss
    /\ pc = "new"
    /\ embedding_dim \in {d \in ConstructDims : d <= MaxCells}
    /\ num_entities \in RowCounts(embedding_dim)
    /\ num_relations \in RowCounts(embedding_dim)
    /\ entity_arg \in {None}
            \cup {Some(t) : t \in SuppliedTables(num_entities, embedding_dim)}
    /\ relation_arg \in {None}
            \cup {Some(t) : t \in SuppliedTables(num_relations, embedding_dim)}
    /\ entity_embeddings = None
    /\ relation_embeddings = None
    /\ irfft_impl = "c2r"
    /\ call = "none"
    /\ batch = << >>
    /\ scores = << >>

\* HolE._init_embeddings: both tables are made anew and filled.
InitEmbeddings ==
    /\ entity_embeddings' \in
            {Some(t) : t \in uniform_(num_entities, embedding_dim,
                                      entity_embeddings_init_bound)}
    /\ relation_embeddings' \in
            {Some(t) : t \in uniform_(num_relations, embedding_dim,
                                      relation_embeddings_init_bound)}

\* HolE.__init__: super().__init__ stores entity_embeddings, line 62 stores
\* relation_embeddings, and both are initialised when either is None.
Construct ==
    /\ pc = "new"
    /\ pc' = "ready"
    /\ IF None \in {entity_arg, relation_arg}
       THEN InitEmbeddings
       ELSE /\ entity_embeddings' = entity_arg
            /\ relation_embeddings' = relation_arg
    /\ UNCHANGED << embedding_dim, num_entities, num_relations, entity_arg,
                    relation_arg, irfft_impl, call, batch, scores >>

ConstructNext == Construct /\ UNCHANGED lossVars

SpecConstruct == ConstructInit /\ [][ConstructNext]_vars

\* _init_embeddings has run
Initialised == pc = "ready" /\ None \in {entity_arg, relation_arg}

\* C6: a table the caller supplied is the table the model holds after
\* construction.
C6_SuppliedTablesKept ==
    pc = "ready" =>
        /\ (entity_arg # None => entity_embeddings = entity_arg)
        /\ (relation_arg # None => relation_embeddings = relation_arg)

\* C7: after _init_embeddings every entity value v has
\* v^2 * (num_entities + embedding_dim) <= 36 and every relation value v has
\* v^2 * (num_relations + embedding_dim) <= 36.
C7_InitBounds ==
    Initialised =>
        /\ \A e \in EntityIds : \A k \in 0..(embedding_dim - 1) :
            EntityWeight[e][k] * EntityWeight[e][k]
                * (num_entities + embedding_dim) <= 36
        /\ \A r \in RelationIds : \A k \in 0..(embedding_dim - 1) :
            RelationWeight[r][k] * RelationWeight[r][k]
                * (num_relations + embedding_dim) <= 36

\* _init_embeddings has drawn an entity value that the relation table's
\* bound excludes
C7_Witness ==
    /\ Initialised
    /\ num_entities < num_relations
    /\ \E e \in EntityIds : \E k \in 0..(embedding_dim - 1) :
        EntityWeight[e][k] * EntityWeight[e][k]
            * (num_relations + embedding_dim) > 36

\* C8: every row of the entity table has Euclidean norm at most
\* entity_embedding_max_norm.
C8_EntityMaxNorm ==
    pc = "ready" =>
        \A e \in EntityIds :
            Sum([k \in 0..(embedding_dim - 1) |->
                    EntityWeight[e][k] * EntityWeight[e][k]], embedding_dim)
                <= entity_embedding_max_norm * entity_embedding_max_norm

(* ------------- the self-adversarial negative-sampling loss ------------- *)

\* Scores and losses are fixed-point numbers: the integer x stands for
\* x / Scale.  exp and log are enclosed, not rounded: a computed real is an
\* interval [lo, hi] of fixed-point numbers that contains it.
Scale == 10 ^ 4

FloorDiv(a, b) == a \div b
CeilDiv(a, b) == 0 - ((0 - a) \div b)

\* epochs of training the pipeline runs
MaxEpochs == 2

\* sum of the terms x^j / j!, j = k..16, of exp(x), from the k-th term,
\* every term rounded down (x >= 0)
RECURSIVE ExpSeriesLo(_, _, _)
ExpSeriesLo(x, k, term) ==
    IF k > 16 THEN 0
    ELSE term + ExpSeriesLo(x, k + 1, FloorDiv(term * x, (k + 1) * Scale))

\* the same with every term rounded up and the rest of the series, which
\* is below the last term for 0 <= x <= 3, added
RECURSIVE ExpSeriesHi(_, _, _)
ExpSeriesHi(x, k, term) ==
    IF k = 16 THEN term + term
    ELSE term + ExpSeriesHi(x, k + 1, CeilDiv(term * x, (k + 1) * Scale))

\* exp(-a) for a fixed-point a in [0, 3]
ExpNeg(a) ==
    [lo |-> FloorDiv(Scale * Scale, ExpSeriesHi(a, 0, Scale)),
     hi |-> CeilDiv(Scale * Scale, ExpSeriesLo(a, 0, Scale))]

\* sum of the terms u^k / k, k odd, k..11, of atanh(u), rounded down
RECURSIVE AtanhSeriesLo(_, _, _)
AtanhSeriesLo(u, k, pow) ==
    IF k > 11 THEN 0
    ELSE FloorDiv(pow, k)
         + AtanhSeriesLo(u, k + 2, FloorDiv(FloorDiv(pow * u, Scale) * u, Scale))

\* the same rounded up, with the rest of the series, which is below u^11
\* for 0 <= u <= 1/3, added
RECURSIVE AtanhSeriesHi(_, _, _)
AtanhSeriesHi(u, k, pow) ==
    IF k = 11 THEN CeilDiv(pow, k) + pow
    ELSE CeilDiv(pow, k)
         + AtanhSeriesHi(u, k + 2, CeilDiv(CeilDiv(pow * u, Scale) * u, Scale))

\* log(1 + y) = 2 * atanh(y / (2 + y)) for y in [0, 1]
Log1p(y) ==
    LET ulo == FloorDiv(y.lo * Scale, 2 * Scale + y.lo)
        uhi == CeilDiv(y.hi * Scale, 2 * Scale + y.hi)
    IN  [lo |-> 2 * AtanhSeriesLo(ulo, 1, ulo),
         hi |-> 2 * AtanhSeriesHi(uhi, 1, uhi)]

\* log(sigmoid(x)) = min(x, 0) - log(1 + exp(-|x|)) for a fixed-point x
log_sigmoid(x) ==
    LET l == Log1p(ExpNeg(IF x < 0 THEN 0 - x ELSE x))
        m == IF x < 0 THEN x ELSE 0
    IN  [lo |-> m - l.hi, hi |-> m - l.lo]

RECURSIVE SeqSum(_, _)
SeqSum(f, n) == IF n = 0 THEN 0 ELSE f[n] + SeqSum(f, n - 1)

Max(z) == CHOOSE m \in {z[j] : j \in DOMAIN z} : \A j \in DOMAIN z : z[j] <= m

\* softmax(z) of a vector of fixed-point numbers
softmax(z) ==
    LET e == Dense([j \in DOMAIN z |-> ExpNeg(Max(z) - z[j])])
        slo == SeqSum([j \in DOMAIN z |-> e[j].lo], Len(z))
        shi == SeqSum([j \in DOMAIN z |-> e[j].hi], Len(z))
    IN  Dense([j \in DOMAIN z |->
            [lo |-> FloorDiv(e[j].lo * Scale, shi),
             hi |-> CeilDiv(e[j].hi * Scale, slo)]])

\* torch.mean of a vector of enclosed numbers
mean(v) ==
    [lo |-> FloorDiv(SeqSum([j \in DOMAIN v |-> v[j].lo], Len(v)), Len(v)),
     hi |-> CeilDiv(SeqSum([j \in DOMAIN v |-> v[j].hi], Len(v)), Len(v))]

\* weights * log_sigmoids: a weight in [0, 1] times a number <= 0
weighted(w, l) ==
    [lo |-> FloorDiv(w.hi * l.lo, Scale), hi |-> CeilDiv(w.lo * l.hi, Scale)]

\* the loss left at the sum of the two parts, not their average
loss_not_halved(pos_loss, neg_loss) ==
    [lo |-> (0 - pos_loss.hi) - neg_loss.hi,
     hi |-> (0 - pos_loss.lo) - neg_loss.lo]

\* (-pos_loss - neg_loss) / 2.
loss_value(pos_loss, neg_loss) ==
    [lo |-> FloorDiv((0 - pos_loss.hi) - neg_loss.hi, 2),
     hi |-> CeilDiv((0 - pos_loss.lo) - neg_loss.lo, 2)]

\* NegativeSamplingSelfAdversarialLoss.forward(pos, neg), by the steps the
\* test lays out for it: the scores are negated into distances before the
\* margin is applied.
loss_forward(c, pos, neg) ==
    LET margin == c.margin * Scale
        weights == softmax([j \in DOMAIN neg |->
                                neg[j] * c.adversarial_temperature])
        neg_distances == [j \in DOMAIN neg |-> 0 - neg[j]]
        neg_log_sigmoids == Dense([j \in DOMAIN neg |->
                                log_sigmoid(neg_distances[j] - margin)])
        intermediate == [j \in DOMAIN neg |->
                                weighted(weights[j], neg_log_sigmoids[j])]
        neg_loss == mean(intermediate)
        pos_distances == [j \in DOMAIN pos |-> 0 - pos[j]]
        pos_log_sigmoids == Dense([j \in DOMAIN pos |->
                                log_sigmoid(margin - pos_distances[j])])
        pos_loss == mean(pos_log_sigmoids)
    IN  loss_value(pos_loss, neg_loss)

\* expected_loss of the test, from its rounded weights and log-sigmoids
\* (exact in fixed point)
expected_loss ==
    LET weights == << 3700, 3700, 1300, 1300 >>
        neg_log_sigmoids == << -13100, -13100, -6900, -6900 >>
        intermediate == [j \in 1..4 |-> (weights[j] * neg_log_sigmoids[j]) \div Scale]
        neg_loss == SeqSum(intermediate, 4) \div 4
        pos_log_sigmoids == << -3100, -3100, -4800, -4800 >>
        pos_loss == SeqSum(pos_log_sigmoids, 4) \div 4
    IN  ((0 - pos_loss) - neg_loss) \div 2

\* the keyword arguments a criterion is constructed with
Kwargs == [margin : {1, 2}, adversarial_temperature : {1, 2}]

\* score batches: four scores, two and two alike (as in the test)
ScoreVals == {0, 0 - (Scale \div 2), 0 - Scale}
ScoreBatches == {<< a, a, b, b >> : a \in ScoreVals, b \in ScoreVals}

\* NegativeSamplingSelfAdversarialLoss.__init__ with the margin keyword
\* ignored
criterion_init_default_margin(kwargs) ==
    [cls |-> "NegativeSamplingSelfAdversarialLoss",
     margin |-> 1,
     adversarial_temperature |-> kwargs.adversarial_temperature]

\* NegativeSamplingSelfAdversarialLoss(margin=..., adversarial_temperature=...)
criterion_init(kwargs) ==
    [cls |-> "NegativeSamplingSelfAdversarialLoss",
     margin |-> kwargs.margin,
     adversarial_temperature |-> kwargs.adversarial_temperature]

\* no HolE model is involved
NoHole ==
    /\ pc = "new"
    /\ embedding_dim = 1
    /\ num_entities = 1
    /\ num_relations = 1
    /\ entity_arg = None
    /\ relation_arg = None
    /\ entity_embeddings = None
    /\ relation_embeddings = None
    /\ irfft_impl = "c2r"
    /\ call = "none"
    /\ batch = << >>
    /\ scores = << >>

LossInit ==
    /\ NoHole
    /\ stage = "new"
    /\ criterion_kwargs \in Kwargs
    /\ criterion = None
    /\ model_criterion = None
    /\ pos_scores = << >>
    /\ neg_scores = << >>
    /\ loss = None
    /\ epochs = 0

\* loss_fct = NegativeSamplingSelfAdversarialLoss(margin=..., adversarial_temperature=...)
CriterionConstruct ==
    /\ stage = "new"
    /\ stage' = "criterion"
    /\ criterion' = Some(criterion_init(criterion_kwargs))
    /\ UNCHANGED << criterion_kwargs, model_criterion, pos_scores, neg_scores,
                    loss, epochs >>

\* loss = loss_fct(pos_scores, neg_scores)
LossForward ==
    /\ stage = "criterion"
    /\ \E pos \in ScoreBatches, neg \in ScoreBatches :
        /\ pos_scores' = pos
        /\ neg_scores' = neg
        /\ loss' = Some(loss_forward(criterion[1], pos, neg))
    /\ UNCHANGED << stage, criterion_kwargs, criterion, model_criterion, epochs >>

\* pipeline(criterion=criterion_cls, criterion_kwargs=criterion_kwargs):
\* the criterion is instantiated and the model is built with it
PipelineStart ==
    /\ stage = "new"
    /\ stage' = "training"
    /\ model_criterion' = Some(criterion_init(criterion_kwargs))
    /\ UNCHANGED << criterion_kwargs, criterion, pos_scores, neg_scores,
                    loss, epochs >>

\* one epoch of training: the model's criterion reduces a batch of scores
PipelineTrain ==
    /\ stage = "training"
    /\ epochs < MaxEpochs
    /\ epochs' = epochs + 1
    /\ \E pos \in ScoreBatches, neg \in ScoreBatches :
        /\ pos_scores' = pos
        /\ neg_scores' = neg
        /\ loss' = Some(loss_forward(model_criterion[1], pos, neg))
    /\ UNCHANGED << stage, criterion_kwargs, criterion, model_criterion >>

\* evaluation of the trained model
PipelineEvaluate ==
    /\ stage = "training"
    /\ epochs > 0
    /\ stage' = "evaluated"
    /\ UNCHANGED << criterion_kwargs, criterion, model_criterion, pos_scores,
                    neg_scores, loss, epochs >>

\* the PipelineResult is returned
PipelineReturn ==
    /\ stage = "evaluated"
    /\ stage' = "done"
    /\ UNCHANGED << criterion_kwargs, criterion, model_criterion, pos_scores,
                    neg_scores, loss, epochs >>

LossNext ==
    \/ CriterionConstruct /\ UNCHANGED holeVars
    \/ LossForward /\ UNCHANGED holeVars
    \/ PipelineStart /\ UNCHANGED holeVars
    \/ PipelineTrain /\ UNCHANGED holeVars
    \/ PipelineEvaluate /\ UNCHANGED holeVars
    \/ PipelineReturn /\ UNCHANGED holeVars

SpecLoss == LossInit /\ [][LossNext]_vars

(* ------------------------ claims about the loss ------------------------ *)

\* two enclosures that can hold the same number
Agree(a, b) == a.lo <= b.hi /\ b.lo <= a.hi

\* the criterion the last loss was computed by
UsedCriterion == IF criterion # None THEN criterion[1] ELSE model_criterion[1]

\* -(mean(log sigmoid(m - P)) + mean(w * log sigmoid(N - m))) / 2 with
\* w = softmax(T * N)
ScoreFormula(pos, neg, m, T) ==
    LET w == softmax([j \in DOMAIN neg |-> neg[j] * T])
        a == mean([j \in DOMAIN pos |-> log_sigmoid(m * Scale - pos[j])])
        b == mean([j \in DOMAIN neg |->
                    weighted(w[j], log_sigmoid(neg[j] - m * Scale))])
    IN  [lo |-> FloorDiv(0 - (a.hi + b.hi), 2), hi |-> CeilDiv(0 - (a.lo + b.lo), 2)]

\* -(mean(log sigmoid(m + P)) + mean(w * log sigmoid(-N - m))) / 2 with
\* w = softmax(T * N)
DistanceFormula(pos, neg, m, T) ==
    LET w == softmax([j \in DOMAIN neg |-> neg[j] * T])
        a == mean([j \in DOMAIN pos |-> log_sigmoid(m * Scale + pos[j])])
        b == mean([j \in DOMAIN neg |->
                    weighted(w[j], log_sigmoid((0 - neg[j]) - m * Scale))])
    IN  [lo |-> FloorDiv(0 - (a.hi + b.hi), 2), hi |-> CeilDiv(0 - (a.lo + b.lo), 2)]

\* P = [0, 0, -0.5, -0.5], N = [0, 0, -1, -1], m = 1, T = 1
TestInput ==
    /\ loss # None
    /\ pos_scores = << 0, 0, 0 - (Scale \div 2), 0 - (Scale \div 2) >>
    /\ neg_scores = << 0, 0, 0 - Scale, 0 - Scale >>
    /\ UsedCriterion.margin = 1
    /\ UsedCriterion.adversarial_temperature = 1

\* |x - 0.34| <= 0.02 for every x of the enclosure
Near034(x) == 3400 - 200 <= x.lo /\ x.hi <= 3400 + 200

C5_CriterionKeepsConfiguration ==
    /\ criterion # None =>
        /\ criterion[1].margin = criterion_kwargs.margin
        /\ criterion[1].adversarial_temperature
                = criterion_kwargs.adversarial_temperature
    /\ stage = "done" =>
        /\ model_criterion # None
        /\ model_criterion[1].cls = "NegativeSamplingSelfAdversarialLoss"
        /\ model_criterion[1].margin = criterion_kwargs.margin
        /\ model_criterion[1].adversarial_temperature
                = criterion_kwargs.adversarial_temperature

\* the pipeline has trained and evaluated a model whose criterion was given
\* a margin other than the default
C5_Witness ==
    /\ stage = "done"
    /\ epochs > 0
    /\ loss # None
    /\ criterion_kwargs.margin = 2
    /\ model_criterion[1].margin = 2

====
